---- MODULE Spec2Model ----
(***************************************************************************)
(* A model of cm_sdk.models.common.common (CloudManagerBase,               *)
(* CloudManagerJSONEncoder, OrderedEnum, CloudManagerEnum) and of          *)
(* cm_sdk.models.host.host (TypeName, Host).                               *)
(*                                                                         *)
(* Python strings are sequences of one-character strings, so that the      *)
(* snake_case / camelCase conversions and the string comparisons of the    *)
(* code are computed character by character.                               *)
(***************************************************************************)
EXTENDS Integers, Sequences, FiniteSets, TLC

(***************************************************************************)
(* Bounds of the model.                                                    *)
(***************************************************************************)
\* longest list assigned to an attribute
MaxListLen == 1
\* most keys of a mapping handed to from_dict, most keyword arguments of a constructor call
MaxKeys == 2
\* most members of the enumeration declared beside TypeName
MaxMembers == 3

(***************************************************************************)
(* Characters and strings.                                                 *)
(***************************************************************************)
LowerCase ==
  << "a","b","c","d","e","f","g","h","i","j","k","l","m",
     "n","o","p","q","r","s","t","u","v","w","x","y","z" >>

UpperCase ==
  << "A","B","C","D","E","F","G","H","I","J","K","L","M",
     "N","O","P","Q","R","S","T","U","V","W","X","Y","Z" >>

\* the index of character c in the sequence of characters cs, 0 when absent
IndexOf(c, cs) ==
  IF \E i \in 1..Len(cs) : cs[i] = c
  THEN CHOOSE i \in 1..Len(cs) : cs[i] = c
  ELSE 0

IsUpper(c) == IndexOf(c, UpperCase) # 0

upper(c) == IF IndexOf(c, LowerCase) # 0 THEN UpperCase[IndexOf(c, LowerCase)] ELSE c

lower(c) == IF IndexOf(c, UpperCase) # 0 THEN LowerCase[IndexOf(c, UpperCase)] ELSE c

\* the code point of a character: upper case letters, then "_", then lower case letters
ord(c) ==
  IF IsUpper(c) THEN 64 + IndexOf(c, UpperCase)
  ELSE IF c = "_" THEN 95
  ELSE 96 + IndexOf(c, LowerCase)

\* Python's s < t on two strings: the first differing character decides, a
\* proper prefix is smaller
RECURSIVE str_lt(_, _)
str_lt(s, t) ==
  IF t = <<>> THEN FALSE
  ELSE IF s = <<>> THEN TRUE
  ELSE IF Head(s) = Head(t) THEN str_lt(Tail(s), Tail(t))
  ELSE ord(Head(s)) < ord(Head(t))

\* string_utils.to_camel_case: every "_" is dropped and the character after
\* it is upper-cased
RECURSIVE to_camel_case(_)
to_camel_case(s) ==
  IF s = <<>> THEN <<>>
  ELSE IF Head(s) = "_" /\ Len(s) > 1
       THEN <<upper(s[2])>> \o to_camel_case(SubSeq(s, 3, Len(s)))
  ELSE <<Head(s)>> \o to_camel_case(Tail(s))

\* string_utils.to_snake_case: an upper case character is lower-cased, and a
\* "_" is put before it unless it starts the string
RECURSIVE snake_tail(_)
snake_tail(s) ==
  IF s = <<>> THEN <<>>
  ELSE IF IsUpper(Head(s)) THEN <<"_", lower(Head(s))>> \o snake_tail(Tail(s))
  ELSE <<Head(s)>> \o snake_tail(Tail(s))

to_snake_case(s) ==
  IF s = <<>> THEN <<>> ELSE <<lower(Head(s))>> \o snake_tail(Tail(s))

(***************************************************************************)
(* Python values: None, str, int, an enumeration member, a list, a dict.   *)
(***************************************************************************)
None == [k |-> "none"]

Str(s) == [k |-> "str", s |-> s]

Num(n) == [k |-> "int", n |-> n]

\* the member of the enumeration class cls declared as name = value
Member(cls, name, value) == [k |-> "enum", cls |-> cls, name |-> name, value |-> value]

List(l) == [k |-> "list", l |-> l]

Dict(d) == [k |-> "dict", d |-> d]

EmptyMap == [key \in {} |-> None]

\* the elements of a sequence
Range(s) == {s[i] : i \in 1..Len(s)}

\* the sequences over S of length at most n
SeqUpTo(S, n) == UNION {[1..m -> S] : m \in 0..n}

(***************************************************************************)
(* cm_sdk.models.host.host: the TypeName enumeration and the Host class.   *)
(***************************************************************************)
\* class TypeName(CloudManagerEnum): the members in declared order
TypeName ==
  <<
    [name |-> <<"M","A","S","T","E","R">>, value |-> <<"M","A","S","T","E","R">>],
    [name |-> <<"N","O","_","D","A","T","A">>, value |-> <<"N","O","_","D","A","T","A">>],
    [name |-> <<"R","E","C","O","V","E","R","I","N","G">>, value |-> <<"R","E","C","O","V","E","R","I","N","G">>],
    [name |-> <<"R","E","P","L","I","C","A","_","A","R","B","I","T","E","R">>, value |-> <<"R","E","P","L","I","C","A","_","A","R","B","I","T","E","R">>],
    [name |-> <<"R","E","P","L","I","C","A","_","P","R","I","M","A","R","Y">>, value |-> <<"R","E","P","L","I","C","A","_","P","R","I","M","A","R","Y">>],
    [name |-> <<"R","E","P","L","I","C","A","_","S","E","C","O","N","D","A","R","Y">>, value |-> <<"R","E","P","L","I","C","A","_","S","E","C","O","N","D","A","R","Y">>],
    [name |-> <<"S","H","A","R","D","_","C","O","N","F","I","G">>, value |-> <<"S","H","A","R","D","_","C","O","N","F","I","G">>],
    [name |-> <<"S","H","A","R","D","_","M","O","N","G","O","S">>, value |-> <<"S","H","A","R","D","_","M","O","N","G","O","S">>],
    [name |-> <<"S","H","A","R","D","_","P","R","I","M","A","R","Y">>, value |-> <<"S","H","A","R","D","_","P","R","I","M","A","R","Y">>],
    [name |-> <<"S","H","A","R","D","_","S","E","C","O","N","D","A","R","Y">>, value |-> <<"S","H","A","R","D","_","S","E","C","O","N","D","A","R","Y">>],
    [name |-> <<"S","H","A","R","D","_","S","T","A","N","D","A","L","O","N","E">>, value |-> <<"S","H","A","R","D","_","S","T","A","N","D","A","L","O","N","E">>],
    [name |-> <<"S","L","A","V","E">>, value |-> <<"S","L","A","V","E">>],
    [name |-> <<"S","T","A","N","D","A","L","O","N","E">>, value |-> <<"S","T","A","N","D","A","L","O","N","E">>] >>

\* names used below
s_children == <<"c","h","i","l","d","r","e","n">>

s_type_name == <<"t","y","p","e","_","n","a","m","e">>

s_hostname == <<"h","o","s","t","n","a","m","e">>

s_host_name == <<"h","o","s","t","_","n","a","m","e">>

s_id == <<"i","d">>

s_group_id == <<"g","r","o","u","p","_","i","d">>

s_links == <<"l","i","n","k","s">>

s_created == <<"c","r","e","a","t","e","d">>

s_updated == <<"u","p","d","a","t","e","d">>

s_MASTER == <<"M","A","S","T","E","R">>

s_SLAVE == <<"S","L","A","V","E">>

s_BOGUS == <<"B","O","G","U","S">>

\* Host.children
Host_children == [n \in {s_type_name} |-> [class |-> "TypeName"]]

\* Host.my_api_attributes
Host_my_api_attributes ==
  <<
    <<"a","l","e","r","t","s","_","e","n","a","b","l","e","d">>,
    <<"a","u","t","h","_","m","e","c","h","a","n","i","s","m","_","n","a","m","e">>,
    <<"c","l","u","s","t","e","r","_","i","d">>,
    <<"d","e","a","c","t","i","v","a","t","e","d">>,
    <<"h","a","s","_","s","t","a","r","t","u","p","_","w","a","r","n","i","n","g","s">>,
    <<"h","i","d","d","e","n">>,
    <<"h","i","d","d","e","n","_","s","e","c","o","n","d","a","r","y">>,
    <<"h","o","s","t","_","e","n","a","b","l","e","d">>,
    <<"h","o","s","t","n","a","m","e">>,
    <<"i","p","_","a","d","d","r","e","s","s">>,
    <<"j","o","u","r","n","a","l","i","n","g","_","e","n","a","b","l","e","d">>,
    <<"l","a","s","t","_","d","a","t","a","_","s","i","z","e","_","b","y","t","e","s">>,
    <<"l","a","s","t","_","i","n","d","e","x","_","s","i","z","e","_","b","y","t","e","s">>,
    <<"l","a","s","t","_","p","i","n","g">>,
    <<"l","a","s","t","_","r","e","a","c","t","i","v","a","t","e","d">>,
    <<"l","a","s","t","_","r","e","s","t","a","r","t">>,
    <<"l","o","g","s","_","e","n","a","b","l","e","d">>,
    <<"l","o","w","_","u","l","i","m","i","t">>,
    <<"m","u","n","i","n","_","e","n","a","b","l","e","d">>,
    <<"p","a","s","s","w","o","r","d">>,
    <<"p","o","r","t">>,
    <<"p","r","o","f","i","l","e","r","_","e","n","a","b","l","e","d">>,
    <<"r","e","p","l","i","c","a","_","s","e","t","_","n","a","m","e">>,
    <<"r","e","p","l","i","c","a","_","s","t","a","t","e","_","n","a","m","e">>,
    <<"s","l","a","v","e","_","d","e","l","a","y","_","s","e","c">>,
    <<"s","s","l","_","e","n","a","b","l","e","d">>,
    <<"t","y","p","e","_","n","a","m","e">>,
    <<"u","p","t","i","m","e","_","m","s","e","c">>,
    <<"u","s","e","r","n","a","m","e">>,
    <<"v","e","r","s","i","o","n">> >>

\* the parameters of Host.__init__, in the order in which it assigns them
Host_init_params ==
  <<
    <<"a","l","e","r","t","s","_","e","n","a","b","l","e","d">>,
    <<"a","u","t","h","_","m","e","c","h","a","n","i","s","m","_","n","a","m","e">>,
    <<"c","l","u","s","t","e","r","_","i","d">>,
    <<"d","e","a","c","t","i","v","a","t","e","d">>,
    <<"h","a","s","_","s","t","a","r","t","u","p","_","w","a","r","n","i","n","g","s">>,
    <<"h","i","d","d","e","n">>,
    <<"h","o","s","t","_","e","n","a","b","l","e","d">>,
    <<"h","o","s","t","n","a","m","e">>,
    <<"i","p","_","a","d","d","r","e","s","s">>,
    <<"j","o","u","r","n","a","l","i","n","g","_","e","n","a","b","l","e","d">>,
    <<"l","a","s","t","_","d","a","t","a","_","s","i","z","e","_","b","y","t","e","s">>,
    <<"l","a","s","t","_","i","n","d","e","x","_","s","i","z","e","_","b","y","t","e","s">>,
    <<"l","a","s","t","_","p","i","n","g">>,
    <<"l","a","s","t","_","r","e","a","c","t","i","v","a","t","e","d">>,
    <<"l","a","s","t","_","r","e","s","t","a","r","t">>,
    <<"l","o","g","s","_","e","n","a","b","l","e","d">>,
    <<"l","o","w","_","u","l","i","m","i","t">>,
    <<"m","u","n","i","n","_","e","n","a","b","l","e","d">>,
    <<"p","a","s","s","w","o","r","d">>,
    <<"p","o","r","t">>,
    <<"p","r","o","f","i","l","e","r","_","e","n","a","b","l","e","d">>,
    <<"r","e","p","l","i","c","a","_","s","e","t","_","n","a","m","e">>,
    <<"r","e","p","l","i","c","a","_","s","t","a","t","e","_","n","a","m","e">>,
    <<"s","s","l","_","e","n","a","b","l","e","d">>,
    <<"t","y","p","e","_","n","a","m","e">>,
    <<"u","p","t","i","m","e","_","m","s","e","c">>,
    <<"u","s","e","r","n","a","m","e">>,
    <<"v","e","r","s","i","o","n">> >>

\* class Host(CloudManagerBase)
Host ==
  [ name |-> "Host",
    has_children |-> TRUE,
    children |-> Host_children,
    my_api_attributes |-> Host_my_api_attributes,
    init_params |-> Host_init_params ]

\* A subclass of CloudManagerBase that declares my_api_attributes = ['hostname']
\* and no children mapping, and whose __init__ only calls
\* CloudManagerBase.__init__
Plain ==
  [ name |-> "Plain",
    has_children |-> FALSE,
    children |-> EmptyMap,
    my_api_attributes |-> <<s_hostname>>,
    init_params |-> <<>> ]

(***************************************************************************)
(* cm_sdk.models.common.common                                             *)
(***************************************************************************)
COMMON_API_ATTRIBUTES == <<s_id, s_group_id, s_links, s_created>>

EQUIVALENCE_IGNORED_ATTRIBUTES == <<s_id, s_group_id, s_links, s_created, s_updated>>

\* the outcome of a call: what it raised, if anything
NoException == "none"

CloudManagerValidationException == "CloudManagerValidationException"

AttributeError == "AttributeError"

KeyError == "KeyError"

TypeError == "TypeError"

\* the class called name
Class(name) == IF name = Host.name THEN Host ELSE Plain

\* CloudManagerBase.__init__: an instance of cls with an empty state
CloudManagerBase_init(cls) == [k |-> "object", cls |-> cls.name, state |-> EmptyMap]

\* self.all_api_attributes, as CloudManagerBase.__init__ sets it
Host_all_api_attributes == COMMON_API_ATTRIBUTES \o Host.my_api_attributes

Plain_all_api_attributes == COMMON_API_ATTRIBUTES \o Plain.my_api_attributes

all_api_attributes(self) ==
  IF self.cls = Host.name THEN Host_all_api_attributes ELSE Plain_all_api_attributes

\* Python's "item in items" on a list
in_list(item, items) == \E i \in 1..Len(items) : items[i] = item

\* CloudManagerBase.__getattr__, called for a name the instance and its class
\* do not define
__getattr__(self, name) ==
  IF name \in DOMAIN self.state
  THEN [raised |-> NoException, value |-> self.state[name]]
  ELSE [raised |-> AttributeError, value |-> None]

\* the expression self.children: the class attribute where the class declares
\* one, __getattr__ otherwise
self_children(self) ==
  IF Class(self.cls).has_children
  THEN [raised |-> NoException, value |-> Class(self.cls).children]
  ELSE __getattr__(self, s_children)

\* the declaration of an enumeration class
ClassMembers(klass) == IF klass = "TypeName" THEN TypeName ELSE <<>>

\* klass[value], the lookup of a member by name in the class's mapping of
\* names: TypeError for a value that cannot be hashed (a list, a dict),
\* KeyError when no member has that name
enum_getitem(klass, value) ==
  LET members == ClassMembers(klass)
      hit == {i \in 1..Len(members) : value.k = "str" /\ members[i].name = value.s}
  IN IF value.k \in {"list", "dict"}
     THEN [raised |-> TypeError, value |-> value]
     ELSE IF hit = {}
     THEN [raised |-> KeyError, value |-> value]
     ELSE LET i == CHOOSE j \in hit : TRUE
          IN [raised |-> NoException,
              value |-> Member(klass, members[i].name, members[i].value)]

\* the except clause of get_child_from_value: a KeyError is logged and the
\* value is left as it is, any other exception goes to the caller
except_KeyError(found, value) ==
  IF found.raised = KeyError THEN [raised |-> NoException, value |-> value] ELSE found

\* the body of get_child_from_value, children being what self.children gave
child_from_value(children, name, value) ==
  IF children.raised = NoException /\ name \in DOMAIN children.value
  THEN except_KeyError(enum_getitem(children.value[name].class, value), value)
  ELSE [raised |-> NoException, value |-> value]

\* a get_child_from_value that returns the value as it came
get_child_from_value_unhydrated(self, name, value) ==
  [raised |-> NoException, value |-> value]

\* CloudManagerBase.get_child_from_value, for a child declared as an
\* enumeration class
get_child_from_value(self, name, value) ==
  child_from_value(self_children(self), name, value)

\* CloudManagerBase.get_child
get_child(self, name, value) ==
  IF value.k \in {"enum", "object"} \/ value = None
  THEN [raised |-> NoException, value |-> value]
  ELSE get_child_from_value(self, name, value)

\* the first exception raised among results, in order
first_raised(results) ==
  IF \A i \in 1..Len(results) : results[i].raised = NoException
  THEN NoException
  ELSE results[CHOOSE i \in 1..Len(results) :
                 /\ results[i].raised # NoException
                 /\ \A j \in 1..(i - 1) : results[j].raised = NoException].raised

\* the list get_children returns, or the exception that ended its loop
children_list(results) ==
  IF first_raised(results) = NoException
  THEN [raised |-> NoException,
        value |-> List([i \in 1..Len(results) |-> results[i].value])]
  ELSE [raised |-> first_raised(results), value |-> None]

\* CloudManagerBase.get_children: the items hydrated in order, up to the
\* first one that raises
get_children(self, name, items) ==
  children_list([i \in 1..Len(items) |->
                   IF items[i].k \in {"enum", "object"}
                   THEN [raised |-> NoException, value |-> items[i]]
                   ELSE get_child(self, name, items[i])])

\* the instance with state[name] = value
store(self, name, value) ==
  [self EXCEPT !.state =
     [n \in DOMAIN self.state \cup {name} |->
        IF n = name THEN value ELSE self.state[n]]]

\* a validation that lets every name through
not_allowable_unchecked(self, name) == FALSE

\* the test of CloudManagerBase.__setattr__: name not in self.all_api_attributes
not_allowable(self, name) == ~in_list(name, all_api_attributes(self))

\* an assignment that stores None like any other value
keep_value_with_nil(self, name, resolved) == store(self, name, resolved)

\* the last lines of CloudManagerBase.__setattr__: nil values are not stored
keep_value(self, name, resolved) ==
  IF resolved # None THEN store(self, name, resolved) ELSE self

\* the end of __setattr__: resolved is the value to store, or the exception
\* its hydration raised
assign_resolved(self, name, resolved) ==
  IF resolved.raised # NoException
  THEN [raised |-> resolved.raised, self |-> self]
  ELSE [raised |-> NoException, self |-> keep_value(self, name, resolved.value)]

\* __setattr__ past its validation, children being what self.children gave
assign_allowable(self, name, value, children) ==
  IF children.raised # NoException
  THEN [raised |-> children.raised, self |-> self]
  ELSE assign_resolved(self, name,
         IF name \in DOMAIN children.value
         THEN IF value.k = "list"
              THEN get_children(self, name, value.l)
              ELSE get_child(self, name, value)
         ELSE [raised |-> NoException, value |-> value])

\* CloudManagerBase.__setattr__: what it raised, and the instance afterwards
__setattr__(self, name, value) ==
  IF not_allowable(self, name)
  THEN [raised |-> CloudManagerValidationException, self |-> self]
  ELSE assign_allowable(self, name, value, self_children(self))

\* the assignments self.<names[i]> = values[names[i]], in order, up to the
\* first one that raises
RECURSIVE assign_all(_, _, _)

\* the assignments that follow one that gave r: none if it raised
assign_rest(r, names, values) ==
  IF r.raised # NoException THEN r ELSE assign_all(r.self, names, values)

assign_all(self, names, values) ==
  IF names = <<>> THEN [raised |-> NoException, self |-> self]
  ELSE assign_rest(__setattr__(self, Head(names), values[Head(names)]),
                   Tail(names), values)

\* cls(**kwargs): CloudManagerBase.__init__, then one assignment per
\* parameter of the class's __init__, None for a parameter not given
construct(cls, kwargs) ==
  assign_all(CloudManagerBase_init(cls), cls.init_params,
             [p \in Range(cls.init_params) |->
                IF p \in DOMAIN kwargs THEN kwargs[p] ELSE None])

\* string_utils.convert_dict_keys(value, Case.SNAKE): the keys of a mapping,
\* of the mappings among its values and of the mappings in the lists among
\* its values are converted; every other value is left as it is
RECURSIVE convert_dict_keys(_)
convert_dict_keys(value) ==
  IF value.k # "dict" THEN value
  ELSE LET conv(v) ==
             IF v.k = "dict" THEN convert_dict_keys(v)
             ELSE IF v.k = "list"
             THEN List([i \in 1..Len(v.l) |-> convert_dict_keys(v.l[i])])
             ELSE v
           src(key) == CHOOSE j \in DOMAIN value.d : to_snake_case(j) = key
       IN Dict([key \in {to_snake_case(j) : j \in DOMAIN value.d} |->
                  conv(value.d[src(key)])])

\* CloudManagerBase.from_dict: a bare instance, then one assignment per item
\* of the converted mapping; items is the order in which the mapping yields
\* its keys
from_dict(cls, dict_in, items) ==
  assign_rest(construct(cls, EmptyMap), items, convert_dict_keys(dict_in).d)

\* the orders in which a mapping may yield the keys of its converted form
ItemOrders(dict_in) ==
  LET keys == DOMAIN convert_dict_keys(dict_in).d
  IN {s \in [1..Cardinality(keys) -> keys] : Range(s) = keys}

\* CloudManagerBase.from_json, on the parsed JSON document
from_json(cls, json_in, items) ==
  from_dict(cls, convert_dict_keys(json_in), items)

\* a to_json that returns str(self), "<class>.<name>", where str(self.value) is meant
Enum_to_json_of_member(o) == Str(<<"T","y","p","e","N","a","m","e",".">> \o o.name)

\* CloudManagerEnum.to_json: str(self.value)
Enum_to_json(o) == Str(o.value)

\* json.dumps(o, cls=CloudManagerJSONEncoder) followed by json.loads: the
\* JSON document of o.  CloudManagerJSONEncoder.default is called for an
\* enumeration member and for an object with a state; the encoder then
\* encodes what default returned.
RECURSIVE dumps(_)
dumps(o) ==
  IF o.k = "enum" THEN dumps(Enum_to_json(o))
  ELSE IF o.k = "object"
  THEN LET keep == {n \in DOMAIN o.state : o.state[n] # None}
           src(key) == CHOOSE n \in keep : to_camel_case(n) = key
       IN Dict([key \in {to_camel_case(n) : n \in keep} |-> dumps(o.state[src(key)])])
  ELSE IF o.k = "list" THEN List([i \in 1..Len(o.l) |-> dumps(o.l[i])])
  ELSE IF o.k = "dict" THEN Dict([key \in DOMAIN o.d |-> dumps(o.d[key])])
  ELSE o

\* CloudManagerBase.to_json
to_json(self) == dumps(self)

\* the items of a list that pass remove_keys's test "item not in to_remove"
RECURSIVE not_in_to_remove(_, _)
not_in_to_remove(items, to_remove) ==
  IF items = <<>> THEN <<>>
  ELSE IF Head(items).k = "str" /\ in_list(Head(items).s, to_remove)
  THEN not_in_to_remove(Tail(items), to_remove)
  ELSE <<Head(items)>> \o not_in_to_remove(Tail(items), to_remove)

\* CloudManagerBase.remove_keys
RECURSIVE remove_keys(_, _)
remove_keys(obj, to_remove) ==
  IF obj.k = "dict"
  THEN Dict([key \in {j \in DOMAIN obj.d : ~in_list(j, to_remove)} |->
               remove_keys(obj.d[key], to_remove)])
  ELSE IF obj.k = "list"
  THEN LET kept == not_in_to_remove(obj.l, to_remove)
       IN List([i \in 1..Len(kept) |-> remove_keys(kept[i], to_remove)])
  ELSE obj

\* CloudManagerBase.equivalent
equivalent(self, other) ==
  remove_keys(to_json(self), EQUIVALENCE_IGNORED_ATTRIBUTES)
    = remove_keys(to_json(other), EQUIVALENCE_IGNORED_ATTRIBUTES)

\* OrderedEnum.__ge__, __gt__, __le__, __lt__: the values are compared when
\* both members are of one class
NotImplemented == "NotImplemented"

\* Python's True and False
Bool(b) == IF b THEN "True" ELSE "False"

\* a comparison of the members' names where their values are meant
lt_by_name(self, other) ==
  IF self.cls = other.cls THEN Bool(str_lt(self.name, other.name)) ELSE NotImplemented

__lt__(self, other) ==
  IF self.cls = other.cls THEN Bool(str_lt(self.value, other.value)) ELSE NotImplemented

__le__(self, other) ==
  IF self.cls = other.cls THEN Bool(~str_lt(other.value, self.value)) ELSE NotImplemented

__gt__(self, other) ==
  IF self.cls = other.cls THEN Bool(str_lt(other.value, self.value)) ELSE NotImplemented

__ge__(self, other) ==
  IF self.cls = other.cls THEN Bool(~str_lt(self.value, other.value)) ELSE NotImplemented

(***************************************************************************)
(* The state: an instance x, a second instance y, the last call made and   *)
(* what it raised and returned; the enumeration class declared beside      *)
(* TypeName and the last comparison of two enumeration members.            *)
(***************************************************************************)
VARIABLES x, y, last, declared, cmp

vars == <<x, y, last, declared, cmp>>

\* the record of a call
Call(op, cls, name, value, arg, raised, ret) ==
  [op |-> op, cls |-> cls, name |-> name, value |-> value, arg |-> arg,
   raised |-> raised, ret |-> ret]

NoCall == Call("none", "", <<>>, None, None, NoException, None)

NoCmp == [a |-> None, b |-> None, lt |-> "", le |-> "", gt |-> "", ge |-> ""]

(***************************************************************************)
(* The inputs.                                                             *)
(***************************************************************************)
Classes == {Host, Plain}

MASTER == Member("TypeName", s_MASTER, s_MASTER)

SLAVE == Member("TypeName", s_SLAVE, s_SLAVE)

\* the attribute names assigned: hostname (no child), type_name (a child of
\* Host, not allowed on Plain) and host_name (allowed on no class)
AttrNames == {s_hostname, s_type_name, s_host_name}

Scalars == {None, Str(s_MASTER), Str(s_BOGUS), Num(27017), MASTER}

ListItems == {None, Str(s_MASTER), Str(s_BOGUS)}

Values == Scalars \cup {List(l) : l \in SeqUpTo(ListItems, MaxListLen)}

\* the functions from at most n elements of keys to values
Mappings(keys, values, n) ==
  UNION {[ks -> values] : ks \in {s \in SUBSET keys : Cardinality(s) <= n}}

\* the keyword arguments of a constructor call
Kwargs(cls) ==
  Mappings(Range(cls.init_params) \cap {s_hostname, s_type_name},
           {Str(s_MASTER), Str(s_BOGUS), SLAVE}, MaxKeys)

\* the mappings handed to from_dict: wire names, one of them hostName
WireKeys == {s_id, s_hostname, to_camel_case(s_host_name), to_camel_case(s_type_name)}

\* the values of those mappings: two strings and a JSON object
WireValues ==
  {Str(s_MASTER), Str(s_BOGUS), Dict([key \in {to_camel_case(s_host_name)} |-> Str(s_BOGUS)])}

WireDicts == {Dict(m) : m \in Mappings(WireKeys, WireValues, MaxKeys)}

(***************************************************************************)
(* The calls on one instance.                                              *)
(***************************************************************************)
\* x = cls(**kwargs): the state after construction
Init ==
  /\ \E cls \in Classes : \E kwargs \in Kwargs(cls) :
     \E r \in {construct(cls, kwargs)} :
        /\ r.raised = NoException
        /\ x = r.self
        /\ last = Call("construct", cls.name, <<>>, None, Dict(kwargs), NoException, None)
  /\ y = None
  /\ declared = <<>>
  /\ cmp = NoCmp

\* x.<name> = value
SetAttr(name, value) ==
  \E r \in {__setattr__(x, name, value)} :
     /\ x' = r.self
     /\ last' = Call("set", x.cls, name, value, None, r.raised, None)
     /\ UNCHANGED <<y, declared, cmp>>

\* cls.from_dict(dict_in), for the class and the mapping of the pending call
FromDict(items) ==
  \E r \in {from_dict(Class(last.cls), last.arg, items)} :
     /\ last' = Call("from_dict", last.cls, <<>>, None, last.arg, r.raised,
                     IF r.raised = NoException THEN r.self ELSE None)
     /\ UNCHANGED <<x, y, declared, cmp>>

\* type(x).from_json(x.to_json())
RoundTrip(items) ==
  \E json \in {to_json(x)} : \E r \in {from_json(Class(x.cls), json, items)} :
     /\ last' = Call("round_trip", x.cls, <<>>, None, json, r.raised,
                     IF r.raised = NoException THEN r.self ELSE None)
     /\ UNCHANGED <<x, y, declared, cmp>>

Next ==
  \/ \E name \in AttrNames, value \in Values : SetAttr(name, value)
  \/ \E items \in ItemOrders(to_json(x)) : RoundTrip(items)

Spec == Init /\ [][Next]_vars

(***************************************************************************)
(* from_dict: the class and the mapping are drawn first, the call follows. *)
(***************************************************************************)
InitFromDict ==
  /\ x = None
  /\ y = None
  /\ \E cls \in Classes, dict_in \in WireDicts :
        last = Call("pending", cls.name, <<>>, None, dict_in, NoException, None)
  /\ declared = <<>>
  /\ cmp = NoCmp

NextFromDict ==
  /\ last.op = "pending"
  /\ \E items \in ItemOrders(last.arg) : FromDict(items)

SpecFromDict == InitFromDict /\ [][NextFromDict]_vars

(***************************************************************************)
(* equivalent: two Host instances, each assigned to.                       *)
(***************************************************************************)
EqNames == {s_id, s_group_id, s_hostname}

EqValues ==
  {Str(s_MASTER), Str(s_BOGUS)} \cup {List(l) : l \in SeqUpTo({Str(s_id)}, MaxListLen)}

InitEq ==
  /\ x = construct(Host, EmptyMap).self
  /\ y = construct(Host, EmptyMap).self
  /\ last = NoCall
  /\ declared = <<>>
  /\ cmp = NoCmp

\* x.<name> = value
SetAttrX(name, value) ==
  /\ x' = __setattr__(x, name, value).self
  /\ UNCHANGED <<y, last, declared, cmp>>

\* y.<name> = value
SetAttrY(name, value) ==
  /\ y' = __setattr__(y, name, value).self
  /\ UNCHANGED <<x, last, declared, cmp>>

NextEq ==
  \/ \E name \in EqNames, value \in EqValues : SetAttrX(name, value)
  \/ \E name \in EqNames, value \in EqValues : SetAttrY(name, value)

SpecEq == InitEq /\ [][NextEq]_vars

(***************************************************************************)
(* OrderedEnum: an enumeration class Declared is declared beside TypeName, *)
(* and two members are compared.                                           *)
(***************************************************************************)
\* the values the members of Declared are given
DeclaredValues == {<<"a">>, <<"b">>, <<"a","b">>, <<"B">>}

\* the declarations of Declared: members A, B, ... with distinct values
Declarations ==
  {[i \in 1..Len(vs) |-> [name |-> <<UpperCase[i]>>, value |-> vs[i]]] :
     vs \in {s \in SeqUpTo(DeclaredValues, MaxMembers) :
               Len(s) > 0 /\ \A i, j \in 1..Len(s) : i # j => s[i] # s[j]}}

\* the members of the classes TypeName and Declared
Members(cls, decl) == {Member(cls, decl[i].name, decl[i].value) : i \in 1..Len(decl)}

\* the comparison drawn, not yet made
InitEnum ==
  /\ x = None
  /\ y = None
  /\ last = NoCall
  /\ declared \in Declarations
  /\ \E a, b \in Members("TypeName", TypeName) \cup Members("Declared", declared) :
        cmp = [a |-> a, b |-> b, lt |-> "", le |-> "", gt |-> "", ge |-> ""]

\* a < b, a <= b, a > b, a >= b
Compare ==
  /\ cmp.lt = ""
  /\ cmp' = [cmp EXCEPT !.lt = __lt__(cmp.a, cmp.b), !.le = __le__(cmp.a, cmp.b),
                         !.gt = __gt__(cmp.a, cmp.b), !.ge = __ge__(cmp.a, cmp.b)]
  /\ UNCHANGED <<x, y, last, declared>>

NextEnum == Compare

SpecEnum == InitEnum /\ [][NextEnum]_vars

(***************************************************************************)
(* The properties.                                                         *)
(***************************************************************************)
\* COMMON_API_ATTRIBUTES plus the class's own list
AllowedNames(cls) ==
  Range(COMMON_API_ATTRIBUTES) \cup Range(Class(cls).my_api_attributes)

\* the last call was x.<name> = value
WasSet == last.op = "set"

\* the instance a call returned, if it returned one
Returned == last.ret # None

\* the names registered in the children of the class of an instance
ChildNames(self) ==
  IF Class(self.cls).has_children THEN DOMAIN Class(self.cls).children ELSE {}

\* value is an enumeration member
IsMember(value) == value.k = "enum"

\* value is the name of a member of the enumeration class klass
NamesMember(value, klass) ==
  /\ value.k = "str"
  /\ \E i \in 1..Len(ClassMembers(klass)) : ClassMembers(klass)[i].name = value.s

\* the position at which a member is declared in its class
Position(m) ==
  LET decl == IF m.cls = "TypeName" THEN TypeName ELSE declared
  IN CHOOSE i \in 1..Len(decl) : decl[i].name = m.name

\* string s comes before string t: at the first position where they differ
\* s has ended or holds the smaller character
ComesBefore(s, t) ==
  \E i \in 1..Len(t) :
    /\ \A j \in 1..(i - 1) : j <= Len(s) /\ s[j] = t[j]
    /\ i > Len(s) \/ ord(s[i]) < ord(t[i])

\* C1: every key present in the state of an instance (one assigned to, one
\* returned by from_json) is in COMMON_API_ATTRIBUTES or in the class's own
\* list, and an assignment of a name outside that set raises the validation
\* error and leaves the state as it was.
C1_StateKeysAllowed ==
  /\ [](/\ DOMAIN x.state \subseteq AllowedNames(x.cls)
        /\ Returned => DOMAIN last.ret.state \subseteq AllowedNames(last.ret.cls))
  /\ [][(last'.op = "set" /\ last'.name \notin AllowedNames(x.cls))
          => (last'.raised = CloudManagerValidationException /\ x' = x)]_vars

C1_Witness ==
  /\ WasSet
  /\ last.name \notin AllowedNames(x.cls)
  /\ last.raised = CloudManagerValidationException
  /\ DOMAIN x.state # {}

\* C2: no key of the state of an instance maps to None, whatever values
\* (None among them) were assigned.
C2_NoNoneInState ==
  /\ \A n \in DOMAIN x.state : x.state[n] # None
  /\ Returned => \A n \in DOMAIN last.ret.state : last.ret.state[n] # None

C2_Witness ==
  /\ WasSet
  /\ last.value = None
  /\ last.raised = NoException
  /\ last.name \notin DOMAIN x.state

\* C3: right after x.<name> = None with an allowed name, name is absent from
\* the state and to_json() has no key for it, whatever was assigned to name
\* before.
C3_NoneUnsets ==
  (WasSet /\ last.value = None /\ last.name \in AllowedNames(x.cls))
    => /\ last.name \notin DOMAIN x.state
       /\ to_camel_case(last.name) \notin DOMAIN to_json(x).d

\* C4 as stated: the value stored for a name registered in children is an
\* enumeration member or a model instance, or a list of them.
C4_ChildrenHydrated ==
  \A n \in DOMAIN x.state \cap ChildNames(x) :
    LET v == x.state[n]
    IN \/ v.k \in {"enum", "object"}
       \/ v.k = "list" /\ \A i \in 1..Len(v.l) : v.l[i].k \in {"enum", "object"}

\* C4, as the code has it: the value stored for a name registered in children with an
\* enumeration class is an enumeration member or a model instance, or a raw
\* value that is not the name of any member of that class, or a list whose
\* elements are each one of these or None: a value that names a member is
\* never stored raw.
C4_ChildrenHydratedOrUnknown ==
  \A n \in DOMAIN x.state \cap ChildNames(x) :
    LET v == x.state[n]
        klass == Class(x.cls).children[n].class
        ok(e) == e.k \in {"enum", "object"} \/ ~NamesMember(e, klass)
    IN IF v.k = "list" THEN \A i \in 1..Len(v.l) : ok(v.l[i]) ELSE ok(v)

C4_Witness ==
  /\ WasSet
  /\ last.name = s_type_name
  /\ last.value = Str(s_MASTER)
  /\ s_type_name \in DOMAIN x.state
  /\ x.state[s_type_name] = MASTER

\* the attributes that differ between two instances: set on one alone, or set
\* to different values
Differing(a, b) ==
  {n \in DOMAIN a.state \cup DOMAIN b.state :
     ~(n \in DOMAIN a.state /\ n \in DOMAIN b.state /\ a.state[n] = b.state[n])}

\* C5: equivalent(x, y) is true for two instances that differ only in the
\* values or the presence of id, group_id, links, created and updated.
C5_IgnoredAttributesIgnored ==
  Differing(x, y) \subseteq Range(EQUIVALENCE_IGNORED_ATTRIBUTES) => equivalent(x, y)

\* C6: equivalent(x, y) is false when the two instances hold different values
\* for an attribute that is not one of the ignored ones, a list included.
C6_OtherAttributesCompared ==
  (\E n \in Differing(x, y) \ Range(EQUIVALENCE_IGNORED_ATTRIBUTES) :
     n \in DOMAIN x.state /\ n \in DOMAIN y.state)
    => ~equivalent(x, y)

\* every enumeration member of the state is stored, alone or in a list,
\* under a name registered in children with the member's class
MembersUnderChildren(self) ==
  \A n \in DOMAIN self.state :
    LET v == self.state[n]
        declared_for(e) ==
          IsMember(e) => (n \in ChildNames(self) /\ Class(self.cls).children[n].class = e.cls)
    IN IF v.k = "list" THEN \A i \in 1..Len(v.l) : declared_for(v.l[i]) ELSE declared_for(v)

\* the last call was type(x).from_json(x.to_json()), and it returned an
\* instance equivalent to x with the state of x
RoundTripped ==
  /\ last.raised = NoException
  /\ Returned
  /\ equivalent(x, last.ret)
  /\ last.ret.state = x.state

C8_FromDictValidates ==
  last.op = "from_dict" =>
    /\ (\E key \in DOMAIN last.arg.d : to_snake_case(key) \notin AllowedNames(last.cls))
         => (last.raised = CloudManagerValidationException /\ ~Returned)
    /\ Returned =>
         \A key \in DOMAIN last.arg.d : to_snake_case(key) \in DOMAIN last.ret.state

\* the last comparison was made, between two members of one class
Compared == cmp.lt # ""

SameClass == cmp.a.cls = cmp.b.cls

\* between members of two classes every comparison yields NotImplemented
AcrossClasses ==
  (Compared /\ ~SameClass)
    => (cmp.lt = NotImplemented /\ cmp.le = NotImplemented
        /\ cmp.gt = NotImplemented /\ cmp.ge = NotImplemented)

C10_ChildrenOptional ==
  (WasSet /\ ~Class(last.cls).has_children /\ last.name \in AllowedNames(last.cls)
     /\ last.value # None)
    => /\ last.raised = NoException
       /\ last.name \in DOMAIN x.state
       /\ x.state[last.name] = last.value

====
